---- MODULE Spec2Model ----
(***************************************************************************)
(* Supervision core of the HYDRA launcher:                                 *)
(*   - ClaudeSession (process/session.rs): one supervised child process,   *)
(*     its background stdout reader thread and the shared output buffer;   *)
(*   - check_all_mcp_servers (mcp/health.rs): the concurrent health round. *)
(*   - set_yolo_mode (commands.rs): the process-wide flag of AppState;      *)
(*   - get_ollama_model_list (process/ollama.rs): the model list query.     *)
(***************************************************************************)
EXTENDS Integers, Sequences, FiniteSets, TLC

(* ------------------------------------------------------------------ *)
(* Bounds of the model                                                  *)
(* ------------------------------------------------------------------ *)
\* successful spawns of one session (process ids 1..MaxStarts)
MaxStarts == 2
\* lines the children of one session write to their stdout, in total
MaxLines == 3
\* messages written to one child's stdin
MaxSends == 2
\* commands that call set_yolo_mode concurrently
MaxCallers == 2
\* calls of set_yolo_mode, in total
MaxYoloCalls == 3
\* entries of the models array in a response body
MaxModels == 2

(* ------------------------------------------------------------------ *)
(* Values                                                               *)
(* ------------------------------------------------------------------ *)
\* Option::None for the process handle
None == 0
Pids == 1..MaxStarts
\* the i-th valid line a child writes is the i-th of "a","b","c",... (cyclic)
Alphabet == <<"a", "b", "c">>
LineText(i) == Alphabet[((i - 1) % Len(Alphabet)) + 1]
\* a line the reader's lines() iterator yields as Err (invalid UTF-8)
Invalid == "\\xFF"
Messages == {"hello"}
NoOp == [op |-> "new", res |-> "Ok", was_running |-> FALSE]

VARIABLES
    \* ---- struct ClaudeSession
    process,        \* Option<Child>: None or the pid of the held child
    child_stdin,    \* child.stdin is Some (meaningful while process # None)
    output_buffer,  \* Arc<Mutex<Vec<String>>>: the Vec
    is_running,     \* bool
    \* ---- the Mutex of output_buffer
    bufLock,        \* who holds it: "free", "caller" or "reader"
    \* ---- the operating system
    procState,      \* pid -> "unborn" | "alive" | "dead"
    emitted,        \* pid -> lines the child has written to its stdout pipe
    stdinPipe,      \* what has been written to child.stdin of the held child
    \* ---- reader threads (one per spawn)
    readerPc,       \* pid -> "none" | "wait" | "locked"
    readerPos,      \* pid -> lines of the pipe consumed so far
    \* ---- the owner of the session
    callerPc,       \* "idle" | "ro_cloned" | "dropped"
    roOutput,       \* read_output's local `output`
    roCtx,          \* what was true when read_output was called
    \* ---- history
    lastOp,         \* the owner's last completed call: the operation, its
                    \* result, and is_running when it was called
    delivered,      \* concatenation of all read_output results
    unstopped,      \* a successful start() not yet followed by a stop() call
    \* ---- check_all_mcp_servers (one round at a time)
    hPc,            \* "idle" | "spawning" | "collecting" | "returned"
    tasks,          \* handles: the state of each spawned probe task, in order
    hIdx,           \* handles consumed by the for loop
    results,        \* the Vec the round builds
    hReturn,        \* the value the round returned
    \* ---- AppState and set_yolo_mode
    yolo_enabled,   \* the bool inside AppState.yolo_enabled
    yoloLock,       \* holder of the Mutex around it, or None
    yPc,            \* per caller: "idle" | "waiting" | "locked" | "written"
    yArg,           \* per caller: the argument `enabled` of its call
    yRet,           \* per caller: <<>> or <<the value its last call returned>>
    yWrites,        \* the stores to the flag, oldest first: [by, val]
    \* ---- get_ollama_model_list
    oInput,         \* what the last call met: client, connection, status, body
    oResult         \* what the last call returned

sessionVars == <<process, child_stdin, output_buffer, is_running, bufLock,
                 procState, emitted, stdinPipe, readerPc,
                 readerPos, callerPc, roOutput, roCtx, lastOp, delivered,
                 unstopped>>

healthVars == <<hPc, tasks, hIdx, results, hReturn>>

yoloVars == <<yolo_enabled, yoloLock, yPc, yArg, yRet, yWrites>>

ollamaVars == <<oInput, oResult>>

appVars == <<yoloVars, ollamaVars>>

vars == <<sessionVars, healthVars, appVars>>

(* ------------------------------------------------------------------ *)
(* Helpers                                                              *)
(* ------------------------------------------------------------------ *)
RECURSIVE Texts(_)
Texts(s) == IF s = <<>> THEN <<>> ELSE <<Head(s).text>> \o Texts(Tail(s))

RECURSIVE OfPid(_, _)
OfPid(s, p) ==
    IF s = <<>> THEN <<>>
    ELSE IF Head(s).pid = p THEN <<Head(s)>> \o OfPid(Tail(s), p)
         ELSE OfPid(Tail(s), p)

RECURSIVE SumOver(_, _)
SumOver(f, S) ==
    IF S = {} THEN 0
    ELSE LET x == CHOOSE y \in S : TRUE IN f[x] + SumOver(f, S \ {x})

TotalLines == SumOver([p \in Pids |-> Len(emitted[p])], Pids)

Spawned == {p \in Pids : procState[p] # "unborn"}
Alive == {p \in Pids : procState[p] = "alive"}
\* the pid the next successful spawn gets
NextPid == Cardinality(Spawned) + 1

Record(op, res) == [op |-> op, res |-> res, was_running |-> is_running]

Log(rec) == lastOp' = rec

(* ------------------------------------------------------------------ *)
(* ClaudeSession::new                                                   *)
(* ------------------------------------------------------------------ *)
\* the commands that may be in flight at once
Callers == 1..MaxCallers

\* impl Default for AppState: yolo_enabled: Mutex::new(true)
AppState_default == yolo_enabled = TRUE

\* no call of get_ollama_model_list yet
NoCall == [build |-> TRUE, conn |-> "none", status |-> 0,
           body |-> [kind |-> "none", models |-> <<>>]]

new ==
    /\ process = None
    /\ child_stdin = FALSE
    /\ output_buffer = <<>>
    /\ is_running = FALSE

Init ==
    /\ new
    /\ bufLock = "free"
    /\ procState = [p \in Pids |-> "unborn"]
    /\ emitted = [p \in Pids |-> <<>>]
    /\ stdinPipe = <<>>
    /\ readerPc = [p \in Pids |-> "none"]
    /\ readerPos = [p \in Pids |-> 0]
    /\ callerPc = "idle"
    /\ roOutput = <<>>
    /\ roCtx = [childDone |-> FALSE, readerDone |-> FALSE]
    /\ lastOp = NoOp
    /\ delivered = <<>>
    /\ unstopped = FALSE
    /\ hPc = "idle"
    /\ tasks = <<>>
    /\ hIdx = 0
    /\ results = <<>>
    /\ hReturn = [tag |-> "none", val |-> <<>>]
    /\ AppState_default
    /\ yoloLock = None
    /\ yPc = [c \in Callers |-> "idle"]
    /\ yArg = [c \in Callers |-> TRUE]
    /\ yRet = [c \in Callers |-> <<>>]
    /\ yWrites = <<>>
    /\ oInput = NoCall
    /\ oResult = [tag |-> "none", val |-> <<>>, err |-> ""]

(* ------------------------------------------------------------------ *)
(* The operating system: the child process                              *)
(* ------------------------------------------------------------------ *)
\* the child writes one more line to its stdout; the i-th line is the i-th
\* letter, or bytes that are not valid UTF-8
ChildWrite(p, valid) ==
    /\ procState[p] = "alive"
    /\ TotalLines < MaxLines
    /\ emitted' = [emitted EXCEPT ![p] =
            Append(@, IF valid THEN LineText(Len(@) + 1) ELSE Invalid)]
    /\ UNCHANGED <<healthVars, appVars>>
    /\ UNCHANGED <<process, child_stdin, output_buffer, is_running, bufLock,
                   procState, stdinPipe, readerPc, readerPos, callerPc,
                   roOutput, roCtx, lastOp, delivered, unstopped>>

\* the child exits on its own; nothing in the session observes it
ChildExit(p) ==
    /\ procState[p] = "alive"
    /\ procState' = [procState EXCEPT ![p] = "dead"]
    /\ UNCHANGED <<healthVars, appVars>>
    /\ UNCHANGED <<process, child_stdin, output_buffer, is_running, bufLock,
                   emitted, stdinPipe, readerPc, readerPos, callerPc,
                   roOutput, roCtx, lastOp, delivered, unstopped>>

(* ------------------------------------------------------------------ *)
(* The reader thread of start(): for line in reader.lines()             *)
(* ------------------------------------------------------------------ *)
\* the line the reader holds between lines() yielding it and the push
ReaderLine(p) ==
    [pid |-> p, n |-> readerPos[p], text |-> emitted[p][readerPos[p]]]

\* a lock that excludes nobody
LockAlwaysGranted == TRUE

\* Mutex::lock is granted only while nobody holds the mutex
LockGranted == bufLock = "free"

\* lines() yields an Err item (a line that is not valid UTF-8):
\* if let Ok(line) = line skips it
ReaderSkip(p) ==
    /\ readerPc[p] = "wait"
    /\ readerPos[p] < Len(emitted[p])
    /\ emitted[p][readerPos[p] + 1] = Invalid
    /\ readerPos' = [readerPos EXCEPT ![p] = @ + 1]
    /\ UNCHANGED <<healthVars, appVars>>
    /\ UNCHANGED <<process, child_stdin, output_buffer, is_running, bufLock,
                   procState, emitted, stdinPipe, readerPc, callerPc,
                   roOutput, roCtx, lastOp, delivered, unstopped>>

\* lines() yields the next complete line of the pipe, and
\* buffer.lock().unwrap() is granted
ReaderLock(p) ==
    /\ readerPc[p] = "wait"
    /\ readerPos[p] < Len(emitted[p])
    /\ emitted[p][readerPos[p] + 1] # Invalid
    /\ LockGranted
    /\ readerPos' = [readerPos EXCEPT ![p] = @ + 1]
    /\ bufLock' = "reader"
    /\ readerPc' = [readerPc EXCEPT ![p] = "locked"]
    /\ UNCHANGED <<healthVars, appVars>>
    /\ UNCHANGED <<process, child_stdin, output_buffer, is_running,
                   procState, emitted, stdinPipe, callerPc,
                   roOutput, roCtx, lastOp, delivered, unstopped>>

\* insertion at the front instead of the back
push_front(buf, line) == <<line>> \o buf

\* Vec::push
push(buf, line) == Append(buf, line)

\* a guard that lives outside the loop: it is kept while lines() waits
guard_kept == "reader"

\* the guard `buf` goes out of scope at the end of the if-let block, before
\* the next call of lines()
guard_dropped == "free"

\* buf.push(line); the guard is released at the end of the block
ReaderPush(p) ==
    /\ readerPc[p] = "locked"
    /\ output_buffer' = push(output_buffer, ReaderLine(p))
    /\ bufLock' = guard_dropped
    /\ readerPc' = [readerPc EXCEPT ![p] = "wait"]
    /\ UNCHANGED <<healthVars, appVars>>
    /\ UNCHANGED <<process, child_stdin, is_running, procState, emitted,
                   stdinPipe, readerPos, callerPc, roOutput, roCtx, lastOp,
                   delivered, unstopped>>

\* lines() ends (the thread returns) once the pipe is drained and its write
\* end is closed: the reader pushes nothing from then on
ReaderDone(p) ==
    /\ readerPc[p] = "wait"
    /\ readerPos[p] = Len(emitted[p])
    /\ procState[p] = "dead"

(* ------------------------------------------------------------------ *)
(* ClaudeSession::start                                                 *)
(* ------------------------------------------------------------------ *)
\* start() without its is_running check
start_never_rejected == FALSE

\* if self.is_running { return Err("Session already running") }
start_rejected == is_running

\* a start() that marks the session running before it spawns
spawn_failed_after_mark ==
    /\ is_running' = TRUE
    /\ UNCHANGED <<process, child_stdin, procState, readerPc, unstopped>>

\* Command::spawn fails: .map_err(..)? returns before any assignment
spawn_failed ==
    UNCHANGED <<process, child_stdin, is_running, procState, readerPc,
                unstopped>>

start(spawnOk) ==
    /\ callerPc = "idle"
    /\ IF start_rejected
       THEN /\ Log(Record("start", "AlreadyRunning"))
            /\ UNCHANGED <<process, child_stdin, is_running, procState,
                           readerPc, unstopped>>
       ELSE IF ~spawnOk
       THEN /\ Log(Record("start", "SpawnFailed"))
            /\ spawn_failed
       ELSE /\ NextPid <= MaxStarts
            /\ procState' = [procState EXCEPT ![NextPid] = "alive"]
            \* child.stdout.take() is Some for Stdio::piped(): thread::spawn
            /\ readerPc' = [readerPc EXCEPT ![NextPid] = "wait"]
            /\ process' = NextPid
            \* child.stdin is Some for Stdio::piped()
            /\ child_stdin' = TRUE
            /\ is_running' = TRUE
            /\ unstopped' = TRUE
            /\ Log(Record("start", "Ok"))
    /\ UNCHANGED <<healthVars, appVars>>
    /\ UNCHANGED <<output_buffer, bufLock, emitted, stdinPipe, readerPos,
                   callerPc, roOutput, roCtx, delivered>>

(* ------------------------------------------------------------------ *)
(* ClaudeSession::send                                                  *)
(* ------------------------------------------------------------------ *)
\* send() with its two error branches exchanged
SendBranchSwapped ==
    IF process = None THEN "NoInputChannel"
    ELSE IF ~child_stdin THEN "NotRunning"
    ELSE "write"

\* which branch of send() is taken
SendBranch ==
    IF process = None THEN "NotRunning"
    ELSE IF ~child_stdin THEN "NoInputChannel"
    ELSE "write"

\* write!(stdin, "{}", message): the message without a line terminator
Written_unterminated(message) == <<message>>

\* writeln!(stdin, "{}", message): the message, then the line terminator
Written(message) == <<message, "\n">>

send(message, writeOk) ==
    /\ callerPc = "idle"
    /\ IF SendBranch # "write"
       THEN /\ Log(Record("send", SendBranch))
            /\ UNCHANGED stdinPipe
       ELSE \* a write to the pipe of a child that is gone fails (EPIPE)
            /\ IF writeOk /\ procState[process] = "alive"
               THEN /\ Len(stdinPipe) < MaxSends * Len(Written(message))
                    /\ stdinPipe' = stdinPipe \o Written(message)
                    /\ Log(Record("send", "Ok"))
               ELSE /\ Log(Record("send", "WriteFailed"))
                    /\ UNCHANGED stdinPipe
    /\ UNCHANGED <<healthVars, appVars>>
    /\ UNCHANGED <<process, child_stdin, output_buffer, is_running, bufLock,
                   procState, emitted, readerPc, readerPos,
                   callerPc, roOutput, roCtx, delivered, unstopped>>

(* ------------------------------------------------------------------ *)
(* ClaudeSession::read_output                                           *)
(* ------------------------------------------------------------------ *)
\* let mut buffer = self.output_buffer.lock().unwrap();
\* let output = buffer.clone();
read_output_lock ==
    /\ callerPc = "idle"
    /\ LockGranted
    /\ bufLock' = "caller"
    /\ roOutput' = output_buffer
    /\ callerPc' = "ro_cloned"
    /\ roCtx' = [childDone |-> Spawned # {} /\ Alive = {},
                 readerDone |-> Spawned # {} /\
                                \A p \in Spawned : ReaderDone(p)]
    /\ UNCHANGED <<healthVars, appVars>>
    /\ UNCHANGED <<process, child_stdin, output_buffer, is_running,
                   procState, emitted, stdinPipe, readerPc,
                   readerPos, lastOp, delivered, unstopped>>

\* read_output() that returns the copy and forgets buffer.clear()
read_output_peek ==
    /\ callerPc = "ro_cloned"
    /\ bufLock' = "free"
    /\ callerPc' = "idle"
    /\ delivered' = delivered \o roOutput
    /\ Log(Record("read_output", "Ok"))
    /\ roOutput' = <<>>
    /\ roCtx' = [childDone |-> FALSE, readerDone |-> FALSE]
    /\ UNCHANGED <<healthVars, appVars>>
    /\ UNCHANGED <<process, child_stdin, output_buffer, is_running,
                   procState, emitted, stdinPipe, readerPc, readerPos,
                   unstopped>>

\* buffer.clear(); output      (the guard is released on return)
read_output_clear ==
    /\ callerPc = "ro_cloned"
    /\ output_buffer' = <<>>
    /\ bufLock' = "free"
    /\ callerPc' = "idle"
    /\ delivered' = delivered \o roOutput
    /\ Log(Record("read_output", "Ok"))
    /\ roOutput' = <<>>
    /\ roCtx' = [childDone |-> FALSE, readerDone |-> FALSE]
    /\ UNCHANGED <<healthVars, appVars>>
    /\ UNCHANGED <<process, child_stdin, is_running, procState, emitted,
                   stdinPipe, readerPc, readerPos, unstopped>>

(* ------------------------------------------------------------------ *)
(* ClaudeSession::stop, ClaudeSession::is_running, Drop                 *)
(* ------------------------------------------------------------------ *)
\* stop() that reports an error when no process is held
stop_result_strict(killOk) ==
    IF process = None \/ ~killOk THEN "TerminationFailed" ELSE "Ok"

\* the result of stop() when child.kill() returns killOk
stop_result(killOk) ==
    IF process # None /\ ~killOk THEN "TerminationFailed" ELSE "Ok"

\* a stop() that forgets the handle and leaves is_running as it is
stop_body_keeps_flag(killOk) ==
    /\ IF process # None /\ killOk
       THEN procState' = [procState EXCEPT ![process] = "dead"]
       ELSE UNCHANGED procState
    /\ IF stop_result(killOk) = "Ok"
       THEN /\ process' = None
            /\ child_stdin' = FALSE
            /\ stdinPipe' = <<>>
            /\ UNCHANGED is_running
       ELSE UNCHANGED <<process, child_stdin, stdinPipe, is_running>>
    /\ unstopped' = FALSE

\* the body of stop(): child.kill()?, then process = None, is_running = false
stop_body(killOk) ==
    /\ IF process # None /\ killOk
       THEN procState' = [procState EXCEPT ![process] =
                            "dead"]
       ELSE UNCHANGED procState
    /\ IF stop_result(killOk) = "Ok"
       THEN \* the old Child is dropped, and its ChildStdin with it
            /\ process' = None
            /\ child_stdin' = FALSE
            /\ stdinPipe' = <<>>
            /\ is_running' = FALSE
       ELSE \* the ? operator returns before the two assignments
            UNCHANGED <<process, child_stdin, stdinPipe, is_running>>
    /\ unstopped' = FALSE

stop(killOk) ==
    /\ callerPc = "idle"
    /\ stop_body(killOk)
    /\ Log(Record("stop", stop_result(killOk)))
    /\ UNCHANGED <<healthVars, appVars>>
    /\ UNCHANGED <<output_buffer, bufLock, emitted,
                   readerPc, readerPos, callerPc, roOutput, roCtx, delivered>>

\* pub fn is_running(&self) -> bool
is_running_query == is_running

\* a destructor that does not call stop()
drop_without_stop(killOk) ==
    /\ callerPc = "idle"
    /\ callerPc' = "dropped"
    /\ Log(Record("drop", "Ok"))
    /\ UNCHANGED <<healthVars, appVars>>
    /\ UNCHANGED <<process, child_stdin, stdinPipe, is_running, procState,
                   unstopped, output_buffer, bufLock, emitted,
                   readerPc, readerPos, roOutput, roCtx, delivered>>

\* fn drop(&mut self) { let _ = self.stop(); }
drop(killOk) ==
    /\ callerPc = "idle"
    /\ stop_body(killOk)
    /\ callerPc' = "dropped"
    /\ Log(Record("drop", stop_result(killOk)))
    /\ UNCHANGED <<healthVars, appVars>>
    /\ UNCHANGED <<output_buffer, bufLock, emitted,
                   readerPc, readerPos, roOutput, roCtx, delivered>>

(* ------------------------------------------------------------------ *)
(* The session, its child processes and its reader threads              *)
(* ------------------------------------------------------------------ *)
Next ==
    \/ \E ok \in BOOLEAN : start(ok)
    \/ \E m \in Messages, ok \in BOOLEAN : send(m, ok)
    \/ read_output_lock
    \/ read_output_clear
    \/ \E ok \in BOOLEAN : stop(ok)
    \/ \E ok \in BOOLEAN : drop(ok)
    \/ \E p \in Pids, v \in BOOLEAN : ChildWrite(p, v)
    \/ \E p \in Pids : ChildExit(p)
    \/ \E p \in Pids : ReaderSkip(p)
    \/ \E p \in Pids : ReaderLock(p)
    \/ \E p \in Pids : ReaderPush(p)

Spec == Init /\ [][Next]_vars

\* the callers that send: start, send and stop with two different messages,
\* next to the children and their readers
SendMessages == {"hello", "status"}

NextSend ==
    \/ \E ok \in BOOLEAN : start(ok)
    \/ \E m \in SendMessages, ok \in BOOLEAN : send(m, ok)
    \/ \E ok \in BOOLEAN : stop(ok)
    \/ \E p \in Pids, v \in BOOLEAN : ChildWrite(p, v)
    \/ \E p \in Pids : ChildExit(p)
    \/ \E p \in Pids : ReaderSkip(p)
    \/ \E p \in Pids : ReaderLock(p)
    \/ \E p \in Pids : ReaderPush(p)

SpecSend == Init /\ [][NextSend]_vars

(* ------------------------------------------------------------------ *)
(* mcp/health.rs                                                        *)
(* ------------------------------------------------------------------ *)
\* let servers = vec![("Serena", 9000u16), ...]
servers == << [name |-> "Serena", port |-> 9000],
             [name |-> "Desktop Commander", port |-> 8100],
             [name |-> "Playwright", port |-> 5200] >>

\* timeout(Duration::from_secs(2), ..), in milliseconds
TimeoutMs == 2000

\* what listens on 127.0.0.1:port during a probe
\*   accepts       a server that accepts connections and answers
\*   accepts_mute  a server that accepts connections and never sends a byte
\*   closed        nothing is listening: the connection is refused
\*   filtered      the connection request is never answered
PortBehaviours == {"accepts", "accepts_mute", "closed", "filtered"}

\* how TcpStream::connect resolves against such a port
connect(behaviour) ==
    CASE behaviour \in {"accepts", "accepts_mute"} -> "established"
      [] behaviour = "closed"                      -> "refused"
      [] behaviour = "filtered"                    -> "none"

\* when the connection attempt resolves, in milliseconds after its start
ResolveTimes == {0, TimeoutMs - 1, TimeoutMs + 1}

\* the timeout fires first: Err(_) of timeout(..).await
TimedOut(resolution, t) == resolution = "none" \/ t >= TimeoutMs

\* a check_port whose time-out arm reports a failed connection
check_port_conflating(resolution, t) ==
    IF ~TimedOut(resolution, t) /\ resolution = "established"
    THEN [tag |-> "Ok", ms |-> t, err |-> ""]
    ELSE [tag |-> "Err", ms |-> 0, err |-> "Connection failed"]

\* a check_port that takes a refused connection for an open port
check_port_refused_ok(resolution, t) ==
    IF TimedOut(resolution, t)
    THEN [tag |-> "Err", ms |-> 0, err |-> "Connection timeout"]
    ELSE [tag |-> "Ok", ms |-> t, err |-> ""]

\* async fn check_port(port) -> Result<u64, String>
check_port(resolution, t) ==
    CASE TimedOut(resolution, t) ->
            [tag |-> "Err", ms |-> 0, err |-> "Connection timeout"]
      [] ~TimedOut(resolution, t) /\ resolution = "established" ->
            [tag |-> "Ok", ms |-> t, err |-> ""]
      [] ~TimedOut(resolution, t) /\ resolution = "refused" ->
            [tag |-> "Err", ms |-> 0, err |-> "Connection failed"]

\* when check_port returns, in milliseconds after its start
probe_duration(resolution, t) ==
    IF TimedOut(resolution, t) THEN TimeoutMs ELSE t

NoneMs == -1
NoError == ""

\* a check_mcp_server that reports a failed probe as status Error
check_mcp_server_error(name, port, resolution, t) ==
    LET r == check_port(resolution, t) IN
    IF r.tag = "Ok"
    THEN [name |-> name, port |-> port, status |-> "Online",
          response_time_ms |-> r.ms, error |-> NoError]
    ELSE [name |-> name, port |-> port, status |-> "Error",
          response_time_ms |-> NoneMs, error |-> r.err]

\* pub async fn check_mcp_server(name, port) -> McpHealthResult
check_mcp_server(name, port, resolution, t) ==
    LET r == check_port(resolution, t) IN
    IF r.tag = "Ok"
    THEN [name |-> name, port |-> port, status |-> "Online",
          response_time_ms |-> r.ms, error |-> NoError]
    ELSE [name |-> name, port |-> port, status |-> "Offline",
          response_time_ms |-> NoneMs, error |-> r.err]

\* a placeholder that carries a response time
placeholder_timed ==
    [name |-> "Unknown", port |-> 0, status |-> "Error",
     response_time_ms |-> 0, error |-> "Task failed"]

\* the Err(e) arm of handle.await
placeholder ==
    [name |-> "Unknown", port |-> 0, status |-> "Error",
     response_time_ms |-> NoneMs, error |-> "Task failed"]

\* a loop that skips the handles whose task failed
collect_dropping(res, task) ==
    IF task.state = "finished" THEN Append(res, task.result) ELSE res

\* the match on handle.await: one push in either arm
collect(res, task) ==
    IF task.state = "finished" THEN Append(res, task.result)
    ELSE Append(res, placeholder)

\* a new round: the command is invoked again
check_all_begin ==
    /\ hPc \in {"idle", "returned"}
    /\ hPc' = "spawning"
    /\ tasks' = <<>>
    /\ hIdx' = 0
    /\ results' = <<>>
    /\ hReturn' = [tag |-> "none", val |-> <<>>]
    /\ UNCHANGED <<sessionVars, appVars>>

\* servers.into_iter().map(|..| tokio::spawn(..)).collect(): the next spawn;
\* let mut results = Vec::new() once all are spawned
spawn_probe(behaviour) ==
    /\ hPc = "spawning"
    /\ tasks' = Append(tasks,
            [state |-> "running", target |-> Len(tasks) + 1,
             met |-> behaviour, attempts |-> 0, took |-> 0,
             result |-> placeholder])
    /\ hPc' = IF Len(tasks) + 1 = Len(servers) THEN "collecting" ELSE "spawning"
    /\ UNCHANGED <<hIdx, results, hReturn>>
    /\ UNCHANGED <<sessionVars, appVars>>

\* a probe task that tries again after a failed attempt
probe_retrying(i, t) ==
    /\ i \in 1..Len(tasks)
    /\ tasks[i].state = "running"
    /\ LET r == check_port(connect(tasks[i].met), t) IN
       tasks' = [tasks EXCEPT ![i] =
            [state |-> IF r.tag = "Ok" \/ @.attempts >= 1 THEN "finished"
                       ELSE "running",
             target |-> @.target, met |-> @.met,
             attempts |-> @.attempts + 1,
             took |-> probe_duration(connect(@.met), t),
             result |-> check_mcp_server(servers[@.target].name,
                            servers[@.target].port, connect(@.met), t)]]
    /\ UNCHANGED <<hPc, hIdx, results, hReturn>>
    /\ UNCHANGED <<sessionVars, appVars>>

\* a spawned task runs check_mcp_server to completion: one connection
\* attempt, which resolves at time t or is cut off by the timeout
probe_finish(i, t) ==
    /\ i \in 1..Len(tasks)
    /\ tasks[i].state = "running"
    /\ tasks' = [tasks EXCEPT ![i] =
            [state |-> "finished", target |-> @.target, met |-> @.met,
             attempts |-> @.attempts + 1,
             took |-> probe_duration(connect(@.met), t),
             result |-> check_mcp_server(servers[@.target].name,
                            servers[@.target].port, connect(@.met), t)]]
    /\ UNCHANGED <<hPc, hIdx, results, hReturn>>
    /\ UNCHANGED <<sessionVars, appVars>>

\* a spawned task is cancelled or panics: its JoinHandle yields Err(JoinError)
probe_fail(i) ==
    /\ i \in 1..Len(tasks)
    /\ tasks[i].state = "running"
    /\ tasks' = [tasks EXCEPT ![i] =
            [state |-> "failed", target |-> @.target, met |-> @.met,
             attempts |-> @.attempts, took |-> @.took,
             result |-> placeholder]]
    /\ UNCHANGED <<hPc, hIdx, results, hReturn>>
    /\ UNCHANGED <<sessionVars, appVars>>

\* a loop that walks the handles from the last to the first
next_handle_reversed == Len(tasks) - hIdx

\* for handle in handles: the handles are taken in the order of the Vec,
\* which is the order of servers
next_handle == hIdx + 1

\* for handle in handles { match handle.await {..} }: one iteration
await_handle ==
    /\ hPc = "collecting"
    /\ hIdx < Len(tasks)
    /\ tasks[next_handle].state # "running"
    /\ results' = collect(results, tasks[next_handle])
    /\ hIdx' = hIdx + 1
    /\ UNCHANGED <<hPc, tasks, hReturn>>
    /\ UNCHANGED <<sessionVars, appVars>>

\* a round that fails as a whole when a target is not online
check_all_return_failing ==
    /\ hPc = "collecting"
    /\ hIdx = Len(tasks)
    /\ hReturn' = IF \A k \in 1..Len(results) : results[k].status = "Online"
                  THEN [tag |-> "Ok", val |-> results]
                  ELSE [tag |-> "Err", val |-> <<>>]
    /\ hPc' = "returned"
    /\ UNCHANGED <<tasks, hIdx, results>>
    /\ UNCHANGED <<sessionVars, appVars>>

\* Ok(results)
check_all_return ==
    /\ hPc = "collecting"
    /\ hIdx = Len(tasks)
    /\ hReturn' = [tag |-> "Ok", val |-> results]
    /\ hPc' = "returned"
    /\ UNCHANGED <<tasks, hIdx, results>>
    /\ UNCHANGED <<sessionVars, appVars>>

NextHealth ==
    \/ check_all_begin
    \/ \E b \in PortBehaviours : spawn_probe(b)
    \/ \E i \in 1..Len(servers), t \in ResolveTimes : probe_finish(i, t)
    \/ \E i \in 1..Len(servers) : probe_fail(i)
    \/ await_handle
    \/ check_all_return

SpecHealth == Init /\ [][NextHealth]_vars

\* the runtime keeps polling every spawned task and the collecting loop, and
\* the timeout bounds every connection attempt
HealthFairness ==
    /\ WF_vars(\E b \in PortBehaviours : spawn_probe(b))
    /\ \A i \in 1..Len(servers) :
          WF_vars((\E t \in ResolveTimes : probe_finish(i, t)) \/ probe_fail(i))
    /\ WF_vars(await_handle)
    /\ WF_vars(check_all_return)

SpecHealthFair == SpecHealth /\ HealthFairness

(* ================================================================== *)
(* commands.rs: set_yolo_mode                                           *)
(* ================================================================== *)
\* a command handler is entered with its argument
yolo_call(c, enabled) ==
    /\ yPc[c] = "idle"
    /\ Len(yWrites) + Cardinality({d \in Callers : yPc[d] \in
                                    {"waiting", "locked"}}) < MaxYoloCalls
    /\ yPc' = [yPc EXCEPT ![c] = "waiting"]
    /\ yArg' = [yArg EXCEPT ![c] = enabled]
    /\ yRet' = [yRet EXCEPT ![c] = <<>>]
    /\ UNCHANGED <<yolo_enabled, yoloLock, yWrites>>
    /\ UNCHANGED <<sessionVars, healthVars, ollamaVars>>

\* a lock() that returns without waiting for the holder
yolo_lock_unguarded == TRUE

\* Mutex::lock blocks while another caller holds the guard
yolo_lock_free == yoloLock = None

\* let mut yolo = state.yolo_enabled.lock().unwrap();
yolo_lock(c) ==
    /\ yPc[c] = "waiting"
    /\ yolo_lock_free
    /\ yoloLock' = c
    /\ yPc' = [yPc EXCEPT ![c] = "locked"]
    /\ UNCHANGED <<yolo_enabled, yArg, yRet, yWrites>>
    /\ UNCHANGED <<sessionVars, healthVars, ollamaVars>>

\* *yolo = enabled;
yolo_write(c) ==
    /\ yPc[c] = "locked"
    /\ yolo_enabled' = yArg[c]
    /\ yWrites' = Append(yWrites, [by |-> c, val |-> yArg[c]])
    /\ yPc' = [yPc EXCEPT ![c] = "written"]
    /\ UNCHANGED <<yoloLock, yArg, yRet>>
    /\ UNCHANGED <<sessionVars, healthVars, ollamaVars>>

\* the tail expression `enabled`
yolo_returned(c) == yArg[c]

\* log_info(..); enabled   -- the guard is dropped as the function returns
yolo_return(c) ==
    /\ yPc[c] = "written"
    /\ yRet' = [yRet EXCEPT ![c] = <<yolo_returned(c)>>]
    /\ yoloLock' = IF yoloLock = c THEN None ELSE yoloLock
    /\ yPc' = [yPc EXCEPT ![c] = "idle"]
    /\ UNCHANGED <<yolo_enabled, yArg, yWrites>>
    /\ UNCHANGED <<sessionVars, healthVars, ollamaVars>>

NextYolo ==
    \/ \E c \in Callers, enabled \in BOOLEAN : yolo_call(c, enabled)
    \/ \E c \in Callers : yolo_lock(c)
    \/ \E c \in Callers : yolo_write(c)
    \/ \E c \in Callers : yolo_return(c)

SpecYolo == Init /\ [][NextYolo]_vars

(* ================================================================== *)
(* process/ollama.rs: get_ollama_model_list                             *)
(* ================================================================== *)
\* what client.get(..).send().await can meet
Connections == {"connected", "refused", "timeout"}

\* status codes of a response
Statuses == {200, 204, 404, 500}

\* an entry of the models array: an object with a string `name`, or an
\* object without one
ModelNames == {"llama3", "qwen"}
Nameless == "<no name>"
Entries == ModelNames \cup {Nameless}

RECURSIVE SeqsUpTo(_, _)
SeqsUpTo(S, n) ==
    IF n = 0 THEN {<<>>}
    ELSE LET shorter == SeqsUpTo(S, n - 1)
         IN shorter \cup {Append(q, e) : q \in shorter, e \in S}

\* response bodies: not JSON (or cut short), a JSON object without `models`,
\* one whose `models` is not an array, one whose `models` is an array
Bodies ==
    {[kind |-> k, models |-> <<>>] :
        k \in {"not_json", "no_models", "models_not_array"}}
    \cup {[kind |-> "models_array", models |-> m] :
            m \in SeqsUpTo(Entries, MaxModels)}

\* StatusCode::is_success: 200..=299
is_success(status) == status >= 200 /\ status <= 299

\* a deserializer that skips the entries it cannot read
json_lenient(body) ==
    IF body.kind # "models_array" THEN [tag |-> "Err", models |-> <<>>]
    ELSE LET kept == SelectSeq(body.models, LAMBDA e : e # Nameless)
         IN [tag |-> "Ok",
             models |-> [k \in 1..Len(kept) |-> [name |-> kept[k]]]]

\* Deserialize for Vec<OllamaModel>: entry by entry, the first entry without
\* a string `name` fails the whole document
RECURSIVE deserialize_models(_, _)
deserialize_models(entries, k) ==
    IF k > Len(entries) THEN [tag |-> "Ok", models |-> <<>>]
    ELSE IF entries[k] = Nameless THEN [tag |-> "Err", models |-> <<>>]
    ELSE LET rest == deserialize_models(entries, k + 1)
         IN IF rest.tag = "Err" THEN rest
            ELSE [tag |-> "Ok",
                  models |-> <<[name |-> entries[k]]>> \o rest.models]

\* response.json::<OllamaTagsResponse>()
json(body) ==
    IF body.kind # "models_array" THEN [tag |-> "Err", models |-> <<>>]
    ELSE deserialize_models(body.models, 1)

\* tags.models.into_iter().map(|m| m.name).collect()
names(models) == [k \in 1..Len(models) |-> models[k].name]

OllamaOk(list) == [tag |-> "Ok", val |-> list, err |-> ""]
OllamaErr(e) == [tag |-> "Err", val |-> <<>>, err |-> e]

ollama_result(build, conn, status, body) ==
    IF ~build THEN OllamaErr("builder error")
    ELSE IF conn # "connected" THEN OllamaErr("Failed to connect to Ollama")
    ELSE IF ~is_success(status) THEN OllamaErr("Ollama returned status")
    ELSE LET tags == json(body)
         IN IF tags.tag = "Err" THEN OllamaErr("Failed to parse response")
            ELSE OllamaOk(names(tags.models))

get_ollama_model_list(build, conn, status, body) ==
    /\ oInput' = [build |-> build, conn |-> conn, status |-> status,
                  body |-> body]
    /\ oResult' = ollama_result(build, conn, status, body)
    /\ UNCHANGED <<sessionVars, healthVars, yoloVars>>

NextOllama ==
    \E build \in BOOLEAN, conn \in Connections, status \in Statuses,
       body \in Bodies : get_ollama_model_list(build, conn, status, body)

SpecOllama == Init /\ [][NextOllama]_vars

(* ================================================================== *)
(* Properties of the session                                            *)
(* ================================================================== *)
StartStep == \E ok \in BOOLEAN : start(ok)
SendStep == \E m \in Messages, ok \in BOOLEAN : send(m, ok)
StopStep == \E ok \in BOOLEAN : stop(ok)
DropStep == \E ok \in BOOLEAN : drop(ok)

\* everything a call may change besides the record of the call itself
sessionState == <<process, child_stdin, output_buffer, is_running, bufLock,
                  procState, emitted, stdinPipe, readerPc, readerPos,
                  callerPc, roOutput, delivered>>

\* every line the readers have handed over, in hand-over order
Handed == delivered \o output_buffer

\* the valid lines among the first k lines child p wrote, as the reader tags them
RECURSIVE ValidLines(_, _)
ValidLines(p, k) ==
    IF k = 0 THEN <<>>
    ELSE IF emitted[p][k] = Invalid THEN ValidLines(p, k - 1)
         ELSE Append(ValidLines(p, k - 1),
                     [pid |-> p, n |-> k, text |-> emitted[p][k]])

\* the lines reader p has pushed so far
Pushed(p) ==
    ValidLines(p, IF readerPc[p] = "locked" THEN readerPos[p] - 1
                  ELSE readerPos[p])

IsPrefix(s, t) == Len(s) <= Len(t) /\ SubSeq(t, 1, Len(s)) = s

\* C1: after any call of stop() has returned, with success or with a
\* termination failure, the session is Idle: is_running is false, no handle
\* is held, and a following start() is not rejected
C1_StopAlwaysLeavesIdle ==
    lastOp.op = "stop" =>
        /\ ~is_running
        /\ process = None
        /\ ~start_rejected

\* C2: start() on a Running session fails with AlreadyRunning and changes
\* nothing (no process spawned, no reader attached, handle, buffer and state
\* as before); and the only process of the session that is alive is the one
\* whose handle is held, so at most one is owned
C2_StartWhileRunningRejected ==
    /\ [](\A p \in Alive : process = p)
    /\ [](Cardinality(Alive) <= 1)
    /\ [][(is_running /\ StartStep) =>
            /\ lastOp'.op = "start"
            /\ lastOp'.res = "AlreadyRunning"
            /\ UNCHANGED sessionState]_vars

C2_Witness ==
    /\ lastOp.op = "start"
    /\ lastOp.res = "AlreadyRunning"
    /\ is_running
    /\ process \in Alive
    /\ output_buffer # <<>>

\* C3 as stated: once a session has been dropped, no process it spawned is
\* alive
C3_NoProcessSurvivesDrop ==
    callerPc = "dropped" => Alive = {}

\* C3 as amended: drop runs stop() and ignores its result; if the kill
\* succeeded (or nothing was held) no process of the session is alive
\* afterwards; only the held process whose kill failed can survive; and
\* dropping an Idle session terminates nothing and meets no error
C3_DropKillsUnlessKillFails ==
    /\ [](callerPc = "dropped" =>
            /\ lastOp.op = "drop"
            /\ lastOp.res = "Ok" => (Alive = {} /\ process = None /\ ~is_running)
            /\ lastOp.res # "Ok" =>
                 (lastOp.was_running /\ process # None /\ Alive \subseteq {process}))
    /\ [][(DropStep /\ ~is_running) =>
            /\ lastOp'.res = "Ok"
            /\ UNCHANGED procState]_vars

C3_Witness ==
    /\ callerPc = "dropped"
    /\ lastOp.was_running
    /\ lastOp.res = "Ok"
    /\ Spawned # {}
    /\ Alive = {}

\* C4: read_output() copies and clears the buffer as one step with respect to
\* the readers' appends: the buffer does not change between the copy and the
\* clear, and the lines returned so far followed by the lines still buffered
\* are exactly the lines the readers pushed, each once
C4_ReadOutputAtomic ==
    /\ callerPc = "ro_cloned" => roOutput = output_buffer
    /\ \A p \in Pids : OfPid(Handed, p) = Pushed(p)
    /\ \A i \in 1..Len(Handed) : Handed[i].pid \in Spawned

C4_Witness ==
    /\ callerPc = "ro_cloned"
    /\ roOutput # <<>>
    /\ delivered # <<>>
    /\ \E p \in Pids : /\ readerPc[p] = "wait"
                       /\ readerPos[p] < Len(emitted[p])
                       /\ emitted[p][readerPos[p] + 1] # Invalid

\* the session is Running since its only start(), its child wrote exactly
\* "a","b","c", and nothing has been returned by read_output() yet
AbcWritten ==
    /\ Spawned = {1}
    /\ process = 1
    /\ is_running
    /\ emitted[1] = <<"a", "b", "c">>
    /\ delivered = <<>>

\* C5 as stated: a read_output() called after the child wrote "a","b","c" and
\* exited returns exactly ["a","b","c"]
C5_ReadAfterExitReturnsAll ==
    (callerPc = "ro_cloned" /\ AbcWritten /\ roCtx.childDone) =>
        Texts(roOutput) = <<"a", "b", "c">>

\* C5 as amended: such a read_output() returns a prefix of ["a","b","c"]; it
\* returns all three when the reader thread had pushed them all by the time
\* of the call, and then the read_output() that follows at once returns
\* nothing
C5_ReadAfterReaderDoneReturnsAll ==
    /\ (callerPc = "ro_cloned" /\ AbcWritten /\ roCtx.childDone) =>
            IsPrefix(Texts(roOutput), <<"a", "b", "c">>)
    /\ (callerPc = "ro_cloned" /\ AbcWritten /\ roCtx.readerDone) =>
            Texts(roOutput) = <<"a", "b", "c">>
    /\ (/\ callerPc = "ro_cloned"
        /\ lastOp.op = "read_output"
        /\ Spawned = {1}
        /\ process = 1
        /\ emitted[1] = <<"a", "b", "c">>
        /\ Texts(delivered) = <<"a", "b", "c">>) => roOutput = <<>>

C5_Witness ==
    /\ callerPc = "ro_cloned"
    /\ lastOp.op = "read_output"
    /\ Spawned = {1}
    /\ process = 1
    /\ procState[1] = "dead"
    /\ emitted[1] = <<"a", "b", "c">>
    /\ Texts(delivered) = <<"a", "b", "c">>
    /\ roOutput = <<>>

\* C6: the lines returned so far followed by the lines still buffered hold,
\* for each child, lines that child wrote, in the order it wrote them, none
\* twice
C6_OutputInEmissionOrder ==
    \A p \in Pids :
        LET s == OfPid(Handed, p) IN
        /\ \A i \in 1..Len(s) :
              /\ s[i].n \in 1..Len(emitted[p])
              /\ s[i].text = emitted[p][s[i].n]
        /\ \A i, j \in 1..Len(s) : i < j => s[i].n < s[j].n

C6_Witness ==
    /\ delivered # <<>>
    /\ output_buffer # <<>>
    /\ \E p \in Pids :
          /\ Len(OfPid(Handed, p)) >= 2
          /\ \E k \in 1..Len(emitted[p]) : emitted[p][k] = Invalid

\* C7: send() on an Idle session fails with NotRunning, and with
\* NoInputChannel when a process is held without an input stream; in both
\* cases nothing is written and nothing changes; a message is written only
\* to the held process of a Running session that has an input stream
C7_SendNeedsRunningSession ==
    [][SendStep =>
        /\ lastOp'.op = "send"
        /\ ~is_running =>
              (lastOp'.res = "NotRunning" /\ UNCHANGED sessionState)
        /\ (process # None /\ ~child_stdin) =>
              (lastOp'.res = "NoInputChannel" /\ UNCHANGED sessionState)
        /\ stdinPipe' # stdinPipe =>
              (is_running /\ process # None /\ child_stdin /\
               lastOp'.res = "Ok")]_vars

C7_Witness ==
    /\ lastOp.op = "send"
    /\ lastOp.res = "NotRunning"
    /\ Spawned # {}
    /\ ~is_running

\* C8 as stated: no call of stop() ever reports an error
C8_StopNeverFails ==
    lastOp.op = "stop" => lastOp.res = "Ok"

\* C8 as amended: stop() on an Idle session (so the second of two stop()
\* calls of which the first succeeded) succeeds, terminates nothing and
\* leaves the session Idle; stop() on a Running session reports an error
\* exactly when the kill fails
C8_StopOnIdleIsNoOp ==
    /\ [][(StopStep /\ ~is_running) =>
            /\ lastOp'.res = "Ok"
            /\ ~is_running'
            /\ UNCHANGED sessionState]_vars
    /\ [][(StopStep /\ lastOp.op = "stop" /\ lastOp.res = "Ok") =>
            /\ lastOp'.res = "Ok"
            /\ UNCHANGED sessionState]_vars
    /\ [][(StopStep /\ is_running /\ lastOp'.res = "Ok") =>
            (Alive' = {} /\ ~is_running' /\ process' = None)]_vars

C8_Witness ==
    /\ lastOp.op = "stop"
    /\ lastOp.res = "Ok"
    /\ ~lastOp.was_running
    /\ Spawned # {}

\* C9: is_running() is true exactly when the most recent successful start()
\* has not been followed by a call of stop()
C9_IsRunningIffUnstopped ==
    is_running_query = unstopped

(* ================================================================== *)
(* Properties of the health round                                       *)
(* ================================================================== *)
\* C10: a round returns exactly as many results as there are targets,
\* whatever the probes met and whichever worker tasks failed
C10_OneResultPerTarget ==
    /\ Len(results) = hIdx
    /\ hPc = "returned" =>
          /\ hReturn.tag = "Ok"
          /\ Len(hReturn.val) = Len(servers)

C10_Witness ==
    /\ hPc = "returned"
    /\ \E i \in 1..Len(tasks) : tasks[i].state = "failed"
    /\ \E i \in 1..Len(hReturn.val) : hReturn.val[i].status = "Offline"
    /\ \E i \in 1..Len(hReturn.val) : hReturn.val[i].status = "Online"

\* the results a round has produced so far, wherever they are held
AllResults ==
    {tasks[i].result : i \in {k \in 1..Len(tasks) : tasks[k].state = "finished"}}
    \cup {results[k] : k \in 1..Len(results)}
    \cup {hReturn.val[k] : k \in 1..Len(hReturn.val)}

Names(rs) == {rs[k].name : k \in 1..Len(rs)}

C12_ErrorIffWorkerFailed ==
    /\ \A i \in 1..Len(tasks) :
          tasks[i].state = "finished" => tasks[i].result.status # "Error"
    /\ \A k \in 1..Len(results) :
          /\ results[k].status = "Error" <=> tasks[k].state = "failed"
          /\ tasks[k].state = "failed" =>
                /\ results[k].name = "Unknown"
                /\ results[k].port = 0
                /\ results[k].response_time_ms = NoneMs
                /\ results[k].error # NoError
          /\ tasks[k].state = "finished" =>
                /\ results[k] = tasks[k].result
                /\ results[k].name = servers[k].name
                /\ results[k].port = servers[k].port

C12_Witness ==
    /\ hPc = "returned"
    /\ tasks[1].state = "failed"
    /\ hReturn.val[1].status = "Error"
    /\ hReturn.val[2].status = "Online"
    /\ hReturn.val[3].status = "Offline"

\* C13: a round always returns a list, never an error value; a refused or
\* timed-out probe becomes its own target's result with status Offline and
\* an error text; and a probe that ends changes no other probe
C13_BatchNeverFails ==
    /\ [](hPc = "returned" => (hReturn.tag = "Ok" /\ hReturn.val = results))
    /\ [](\A i \in 1..Len(tasks) :
            (tasks[i].state = "finished" /\ connect(tasks[i].met) # "established")
            => /\ tasks[i].result.status = "Offline"
               /\ tasks[i].result.error \in {"Connection failed",
                                             "Connection timeout"}
               /\ tasks[i].result.name = servers[i].name)
    /\ [][Len(tasks') = Len(tasks) =>
            \A i \in 1..Len(tasks) :
                tasks'[i] # tasks[i] =>
                    \A j \in 1..Len(tasks) : (j # i => tasks'[j] = tasks[j])]_tasks

C13_Witness ==
    /\ hPc = "returned"
    /\ hReturn.tag = "Ok"
    /\ \A k \in 1..Len(hReturn.val) : hReturn.val[k].status = "Offline"
    /\ {hReturn.val[k].error : k \in 1..Len(hReturn.val)} =
            {"Connection failed", "Connection timeout"}

\* the invariant of McpHealthResult
WellFormed(r) ==
    /\ r.status = "Online" <=>
            (r.response_time_ms # NoneMs /\ r.error = NoError)
    /\ r.status \in {"Offline", "Error"} => r.response_time_ms = NoneMs
    /\ r.status \in {"Online", "Offline", "Error"}

\* C14: every result of every round has status Online exactly when its
\* response time is present and its error absent, and no response time when
\* its status is Offline or Error
C14_ResultWellFormed ==
    \A r \in AllResults : WellFormed(r)

C14_Witness ==
    /\ hPc = "collecting"
    /\ {results[k].status : k \in 1..Len(results)} =
            {"Online", "Offline", "Error"}

\* C15 as stated: a probe of a port that accepts the connection and never
\* responds times out at the 2 s bound with the reason ConnectionTimeout
C15_MutePortTimesOut ==
    \A i \in 1..Len(tasks) :
        (tasks[i].state = "finished" /\ tasks[i].met = "accepts_mute") =>
            /\ tasks[i].result.error = "Connection timeout"
            /\ tasks[i].took = TimeoutMs

\* C15 as amended: a probe whose connection attempt is not resolved within
\* 2 s ends at the bound with the reason ConnectionTimeout, which differs
\* from ConnectionFailed; a port that accepts the connection in time yields
\* success whether or not it ever sends anything; connected, connection
\* failed and timed out exclude each other
C15_UnresolvedConnectTimesOut ==
    \A i \in 1..Len(tasks) :
        tasks[i].state = "finished" =>
            LET r == tasks[i].result
                connected == r.status = "Online"
                failed == r.error = "Connection failed"
                timedout == r.error = "Connection timeout"
            IN /\ tasks[i].met = "filtered" =>
                    (timedout /\ tasks[i].took = TimeoutMs)
               /\ timedout <=> tasks[i].took = TimeoutMs
               /\ (tasks[i].met = "accepts_mute" /\ tasks[i].took < TimeoutMs)
                    => (connected /\ r.response_time_ms = tasks[i].took)
               /\ failed => (connect(tasks[i].met) = "refused" /\
                             tasks[i].took < TimeoutMs)
               /\ (connected /\ ~failed /\ ~timedout)
                    \/ (~connected /\ failed /\ ~timedout)
                    \/ (~connected /\ ~failed /\ timedout)

C15_Witness ==
    /\ hPc = "collecting"
    /\ \E i \in 1..Len(tasks) :
          /\ tasks[i].state = "finished"
          /\ tasks[i].met = "filtered"
          /\ tasks[i].result.error = "Connection timeout"
    /\ \E i \in 1..Len(tasks) :
          /\ tasks[i].state = "finished"
          /\ tasks[i].met = "accepts_mute"
          /\ tasks[i].result.status = "Online"

\* C16: a probe of a port with nothing listening never reports success: it
\* ends, no later than the bound, with ConnectionFailed or with the
\* time-out, as a result with status Offline; every probe ends, and every
\* round that was begun returns
C16_ClosedPortFailsAndRoundReturns ==
    /\ [](\A i \in 1..Len(tasks) :
            (tasks[i].state = "finished" /\ tasks[i].met = "closed") =>
                /\ tasks[i].result.status = "Offline"
                /\ tasks[i].result.error \in {"Connection failed",
                                              "Connection timeout"}
                /\ tasks[i].took <= TimeoutMs)
    /\ \A i \in 1..Len(servers) :
          (Len(tasks) >= i /\ tasks[i].state = "running")
            ~> (Len(tasks) >= i /\ tasks[i].state # "running")
    /\ (hPc = "spawning") ~> (hPc = "returned")

C16_Witness ==
    /\ hPc = "returned"
    /\ \A i \in 1..Len(tasks) :
          /\ tasks[i].state = "finished"
          /\ tasks[i].met = "closed"
    /\ hReturn.val[1].error = "Connection failed"
    /\ hReturn.val[2].error = "Connection timeout"

\* C17: a round launches one probe for each of Serena:9000,
\* Desktop Commander:8100 and Playwright:5200, in that order; a probe makes
\* one connection attempt and is never repeated, whatever its outcome
C17_OneAttemptPerTarget ==
    /\ servers = << [name |-> "Serena", port |-> 9000],
                    [name |-> "Desktop Commander", port |-> 8100],
                    [name |-> "Playwright", port |-> 5200] >>
    /\ Len(tasks) <= Len(servers)
    /\ hPc \in {"collecting", "returned"} => Len(tasks) = Len(servers)
    /\ \A i \in 1..Len(tasks) :
          /\ tasks[i].target = i
          /\ tasks[i].attempts <= 1
          /\ tasks[i].state = "finished" =>
                /\ tasks[i].attempts = 1
                /\ tasks[i].result.name = servers[i].name
                /\ tasks[i].result.port = servers[i].port

C17_Witness ==
    /\ hPc = "returned"
    /\ \A i \in 1..Len(tasks) :
          /\ tasks[i].state = "finished"
          /\ tasks[i].attempts = 1
    /\ hReturn.val[1].status = "Offline"
    /\ hReturn.val[2].status = "Offline"
    /\ hReturn.val[3].status = "Online"

\* C18: a start() whose spawn fails reports SpawnFailed and leaves the
\* session as it was: not running, no handle, no reader attached, buffer
\* unchanged; and the start() after it is not rejected with AlreadyRunning
C18_SpawnFailureLeavesSessionIdle ==
    /\ []((lastOp.op = "start" /\ lastOp.res = "SpawnFailed") =>
            /\ ~is_running
            /\ process = None
            /\ ~start_rejected)
    /\ [][(~is_running /\ start(FALSE)) =>
            /\ lastOp'.op = "start"
            /\ lastOp'.res = "SpawnFailed"
            /\ UNCHANGED sessionState]_vars
    /\ [][(lastOp.op = "start" /\ lastOp.res = "SpawnFailed" /\ StartStep) =>
            lastOp'.res # "AlreadyRunning"]_vars

C18_Witness ==
    /\ lastOp.op = "start"
    /\ lastOp.res = "SpawnFailed"
    /\ ~is_running
    /\ process = None
    /\ output_buffer # <<>>

\* the callers inside the critical section of set_yolo_mode
Holding == {c \in Callers : yPc[c] \in {"locked", "written"}}

\* C19: the flag is true until the first store; the stores are serialised
\* by the lock, so the flag equals the argument of the call that stored
\* last, and equals a caller's own argument from its store until it
\* returns; every call returns its own argument, a value that was stored
C19_YoloFlagAtomic ==
    /\ yWrites = <<>> => yolo_enabled = TRUE
    /\ yWrites # <<>> => yolo_enabled = yWrites[Len(yWrites)].val
    /\ Cardinality(Holding) <= 1
    /\ \A c \in Callers :
          /\ c \in Holding => yoloLock = c
          /\ yPc[c] = "written" =>
                /\ yolo_enabled = yArg[c]
                /\ yWrites[Len(yWrites)] = [by |-> c, val |-> yArg[c]]
          /\ yRet[c] # <<>> =>
                /\ yRet[c] = <<yArg[c]>>
                /\ \E k \in 1..Len(yWrites) :
                      yWrites[k] = [by |-> c, val |-> yRet[c][1]]

C19_Witness ==
    /\ yRet[1] = <<TRUE>>
    /\ yRet[2] = <<FALSE>>
    /\ yWrites = << [by |-> 2, val |-> FALSE], [by |-> 1, val |-> TRUE] >>
    /\ yolo_enabled = TRUE
    /\ Holding = {}

\* a body that deserializes as OllamaTagsResponse
Parseable(body) ==
    /\ body.kind = "models_array"
    /\ \A k \in 1..Len(body.models) : body.models[k] \in ModelNames

\* C20: the query returns a list exactly when the client was built, the
\* connection was made, the status is a success and the body is a document
\* with a models array of named entries; the list is then the whole list of
\* names, in order; a connection failure, a non-success status and a
\* malformed body each give an error and no list
C20_ListOnlyFromGoodResponse ==
    oInput # NoCall =>
        LET good == /\ oInput.build
                    /\ oInput.conn = "connected"
                    /\ oInput.status \in 200..299
                    /\ Parseable(oInput.body)
        IN /\ oResult.tag = "Ok" <=> good
           /\ oResult.tag = "Ok" =>
                /\ oResult.val = oInput.body.models
                /\ oResult.err = ""
           /\ oResult.tag # "Ok" =>
                /\ oResult.tag = "Err"
                /\ oResult.val = <<>>
                /\ oResult.err # ""
           /\ (oInput.build /\ oInput.conn # "connected") =>
                oResult.err = "Failed to connect to Ollama"
           /\ (oInput.build /\ oInput.conn = "connected"
                 /\ oInput.status \notin 200..299) =>
                oResult.err = "Ollama returned status"
           /\ (oInput.build /\ oInput.conn = "connected"
                 /\ oInput.status \in 200..299 /\ ~Parseable(oInput.body)) =>
                oResult.err = "Failed to parse response"

C20_Witness ==
    /\ oInput.conn = "connected"
    /\ oInput.status = 200
    /\ oInput.body.kind = "models_array"
    /\ Len(oInput.body.models) = 2
    /\ oInput.body.models[2] = Nameless
    /\ oResult.tag = "Err"
    /\ oResult.err = "Failed to parse response"

\* the readers that hold the buffer's lock
LockedReaders == {p \in Pids : readerPc[p] = "locked"}

\* C21: the buffer's lock is held by a reader only between its lock() and
\* the end of its push, with the line already in hand, and by the caller
\* only between the lock() and the return of read_output; a reader that
\* waits for a line holds nothing. Whoever holds the lock can release it
\* without any step of the child, read_output gets the lock whenever it is
\* free, and stop() and send() never wait for it
C21_LockOnlyForAppendOrDrain ==
    /\ bufLock = "reader" <=> LockedReaders # {}
    /\ bufLock = "caller" <=> callerPc = "ro_cloned"
    /\ Cardinality(LockedReaders) <= 1
    /\ \A p \in LockedReaders : ENABLED ReaderPush(p)
    /\ callerPc = "ro_cloned" => ENABLED read_output_clear
    /\ (callerPc = "idle" /\ bufLock = "free") => ENABLED read_output_lock
    /\ callerPc = "idle" => ENABLED StopStep
    /\ (callerPc = "idle" /\ SendBranch # "write") => ENABLED SendStep

C21_Witness ==
    /\ callerPc = "ro_cloned"
    /\ roOutput # <<>>
    /\ \E p \in Alive :
          /\ readerPc[p] = "wait"
          /\ readerPos[p] = Len(emitted[p])
    /\ \E q \in Pids :
          /\ readerPc[q] = "wait"
          /\ readerPos[q] < Len(emitted[q])

SendAnyStep == \E m \in SendMessages, ok \in BOOLEAN : send(m, ok)

\* C22: a send() whose write fails returns the failure and changes nothing:
\* handle, is_running, buffer and the child's input stay as they were, so
\* nothing is queued and the session stays Running; the child's input only
\* ever grows at its end, by one message followed by one line terminator
\* per successful send, and is what the successful sends wrote, in call
\* order
C22_FailedSendChangesNothing ==
    /\ [][(SendAnyStep /\ lastOp'.op = "send" /\ lastOp'.res = "WriteFailed")
            => /\ UNCHANGED sessionState
               /\ process # None
               /\ is_running']_vars
    /\ [][(SendAnyStep /\ lastOp'.op = "send" /\ lastOp'.res = "Ok")
            => \E m \in SendMessages :
                    stdinPipe' = stdinPipe \o <<m, "\n">>]_vars
    /\ [][stdinPipe' # stdinPipe =>
            \/ /\ stdinPipe' = <<>>
               /\ process' = None
            \/ /\ lastOp'.op = "send"
               /\ lastOp'.res = "Ok"
               /\ \E m \in SendMessages :
                    stdinPipe' = stdinPipe \o <<m, "\n">>]_vars
    /\ [](\A k \in 1..Len(stdinPipe) :
            IF k % 2 = 1 THEN stdinPipe[k] \in SendMessages
            ELSE stdinPipe[k] = "\n")

C22_Witness ==
    /\ lastOp.op = "send"
    /\ lastOp.res = "WriteFailed"
    /\ is_running
    /\ procState[process] = "dead"
    /\ stdinPipe = <<"status", "\n", "hello", "\n">>
    /\ output_buffer # <<>>

\* C23: in every reachable state is_running is true exactly when a process
\* handle is held, whatever starts, sends, reads, stops (successful or
\* failed) and child exits led to it
C23_RunningIffHandleHeld ==
    is_running <=> process # None

C23_Witness ==
    /\ lastOp.op = "stop"
    /\ lastOp.res = "TerminationFailed"
    /\ is_running
    /\ process = 2
    /\ procState[2] = "dead"
    /\ stdinPipe # <<>>
    /\ delivered # <<>>

\* C24: once a process has been started after a stop(), the buffer and what
\* read_output returns hold only lines of the process whose handle is held,
\* and no reader of an earlier process is appending
C24_OutputIsolatedBetweenProcesses ==
    process # None =>
        /\ \A k \in 1..Len(output_buffer) : output_buffer[k].pid = process
        /\ \A k \in 1..Len(roOutput) : roOutput[k].pid = process
        /\ \A p \in Pids \ {process} : readerPc[p] # "locked"

\* C25: the round starts the probes of all targets before it awaits the
\* first of them, and takes their results in the order of the target list:
\* the k-th result is the k-th target's own result, or the placeholder when
\* that target's task failed, in whatever order the probes ended
C25_ResultsInTargetOrder ==
    /\ hPc \in {"collecting", "returned"} => Len(tasks) = Len(servers)
    /\ hPc \in {"idle", "spawning"} => (hIdx = 0 /\ results = <<>>)
    /\ Len(results) = hIdx
    /\ \A k \in 1..Len(results) :
          /\ tasks[k].state # "running"
          /\ tasks[k].target = k
          /\ IF tasks[k].state = "finished"
             THEN /\ results[k].name = servers[k].name
                  /\ results[k].port = servers[k].port
             ELSE results[k] = placeholder
    /\ hPc = "returned" =>
          /\ hReturn.val = results
          /\ Len(hReturn.val) = Len(servers)

C25_Witness ==
    /\ hPc = "returned"
    /\ tasks[1].took = TimeoutMs
    /\ tasks[3].took = 0
    /\ tasks[2].state = "failed"
    /\ hReturn.val[1].name = "Serena"
    /\ hReturn.val[1].error = "Connection timeout"
    /\ hReturn.val[2].name = "Unknown"
    /\ hReturn.val[3].name = "Playwright"
    /\ hReturn.val[3].status = "Online"

====
